---- MODULE Spec2Model ----
(***************************************************************************)
(* Sparse matrix engine of twizelissa/sparse-matrix.                       *)
(*                                                                         *)
(* The repository holds two SparseMatrix classes:                          *)
(*   "root" : src/SparseMatrix.js, driven by src/unnamed/part_000          *)
(*   "main" : src/dsa/sparse_matrix/code/src/main.js                       *)
(* Both keep the entries in a JavaScript Map keyed by the string           *)
(* `${row},${col}`.  A Map iterates in insertion order, so a Map is a      *)
(* sequence of [key, value] records with pairwise different keys.          *)
(* A string is a sequence of one-character strings.                        *)
(***************************************************************************)
EXTENDS Integers, Sequences, FiniteSets

(***************************************************************************)
(* Bounds of the model.                                                    *)
(***************************************************************************)
\* input files declare rows and cols in 1..MaxDim
MaxDim == 2
\* element lines of an input file have row in 0..MaxRow
MaxRow == 2
\* element lines of an input file have col in 0..MaxCol
MaxCol == 1
\* values of element lines and of setElement calls range over -MaxVal..MaxVal
MaxVal == 1
\* element lines of an input file
MaxLines == 2
\* a caller constructs matrices with rows and cols in 0..MaxCallerDim
MaxCallerDim == 1
\* a caller passes rows in 0..MaxCallerRow to setElement
MaxCallerRow == 1
\* a caller passes cols in 0..MaxCallerCol to setElement
MaxCallerCol == 0
\* stored entries of a matrix a caller holds
MaxEntries == 2
\* absolute value of a stored entry of a matrix a caller holds
MaxAbs == 2

FileDims == 1..MaxDim
Rows == 0..MaxRow
Cols == 0..MaxCol
Vals == (-MaxVal)..MaxVal
CallerDims == 0..MaxCallerDim
CallerRows == 0..MaxCallerRow
CallerCols == 0..MaxCallerCol

(***************************************************************************)
(* Strings: template literals, String.prototype.split and Number().        *)
(***************************************************************************)
Digits == <<"0", "1", "2", "3", "4", "5", "6", "7", "8", "9">>

RECURSIVE NatToString(_)
NatToString(n) ==
    IF n < Len(Digits)
      THEN <<Digits[n + 1]>>
      ELSE NatToString(n \div Len(Digits)) \o <<Digits[(n % Len(Digits)) + 1]>>

\* `${n}` for an integer n
IntToString(n) == IF n < 0 THEN <<"-">> \o NatToString(-n) ELSE NatToString(n)

\* the key `${row},${col}` of getElement and setElement
Key(row, col) == IntToString(row) \o <<",">> \o IntToString(col)

DigitValue(ch) == (CHOOSE d \in 1..Len(Digits) : Digits[d] = ch) - 1

RECURSIVE NatOfString(_)
NatOfString(s) ==
    IF s = <<>>
      THEN 0
      ELSE NatOfString(SubSeq(s, 1, Len(s) - 1)) * Len(Digits) + DigitValue(s[Len(s)])

\* Number(s) for a string of an optional sign and decimal digits
Number(s) ==
    IF s # <<>> /\ s[1] = "-" THEN -NatOfString(Tail(s)) ELSE NatOfString(s)

\* s.split(",")
RECURSIVE split(_)
split(s) ==
    IF \E i \in 1..Len(s) : s[i] = ","
      THEN LET i == CHOOSE i \in 1..Len(s) :
                        s[i] = "," /\ \A j \in 1..(i - 1) : s[j] # ","
           IN  <<SubSeq(s, 1, i - 1)>> \o split(SubSeq(s, i + 1, Len(s)))
      ELSE <<s>>

\* const [row, col] = key.split(",").map(Number)
parseKey(key) ==
    LET parts == split(key) IN <<Number(parts[1]), Number(parts[2])>>

(***************************************************************************)
(* Map: has, get, set, delete on an insertion-ordered sequence.            *)
(***************************************************************************)
MapHas(m, k) == \E i \in 1..Len(m) : m[i].key = k

MapGet(m, k) == m[CHOOSE i \in 1..Len(m) : m[i].key = k].value

\* set keeps the position of a key already present, appends a new key
MapSet(m, k, v) ==
    IF MapHas(m, k)
      THEN [i \in 1..Len(m) |->
              IF m[i].key = k THEN [key |-> k, value |-> v] ELSE m[i]]
      ELSE Append(m, [key |-> k, value |-> v])

MapDelete(m, k) == SelectSeq(m, LAMBDA e : e.key # k)

(***************************************************************************)
(* getElement / setElement (the same code in both classes).  `m` is the    *)
(* Map this.elements.                                                      *)
(***************************************************************************)
\* this.elements.get(key) || 0
getElement(m, row, col) ==
    IF MapHas(m, Key(row, col)) /\ MapGet(m, Key(row, col)) # 0
      THEN MapGet(m, Key(row, col))
      ELSE 0

\* setElement without the value !== 0 test: a zero is stored like any value
setElementStoresZero(m, row, col, value) == MapSet(m, Key(row, col), value)

\* setElement without the else branch: a zero leaves the Map as it is
setElementNoDelete(m, row, col, value) ==
    IF value # 0 THEN MapSet(m, Key(row, col), value) ELSE m

setElement(m, row, col, value) ==
    IF value # 0
      THEN MapSet(m, Key(row, col), value)
      ELSE MapDelete(m, Key(row, col))

(***************************************************************************)
(* The arithmetic of src/SparseMatrix.js.  `this` and `other` are records  *)
(* [rows, cols, elements]; each operator returns the Map result.elements.  *)
(***************************************************************************)
\* for (row = 0; row <= this.rows; row++) for (col = 0; col <= this.cols; col++)
\* n counts the cells visited so far, in row-major order
RECURSIVE addLoop(_, _, _, _)
addLoop(this, other, n, result) ==
    LET width == this.cols + 1
        row == n \div width
        col == n % width
        sum == getElement(this.elements, row, col)
                 + getElement(other.elements, row, col)
    IN  IF row > this.rows
          THEN result
          ELSE addLoop(this, other, n + 1,
                       IF sum # 0 THEN setElement(result, row, col, sum) ELSE result)

add(this, other) == addLoop(this, other, 0, <<>>)

\* for (row = 0; row < this.rows; row++) for (col = 0; col < this.cols; col++)
RECURSIVE subtractLoop(_, _, _, _)
subtractLoop(this, other, n, result) ==
    IF this.cols <= 0 \/ n \div this.cols >= this.rows
      THEN result
      ELSE LET row == n \div this.cols
               col == n % this.cols
               diff == getElement(this.elements, row, col)
                         - getElement(other.elements, row, col)
           IN  subtractLoop(this, other, n + 1,
                            IF diff # 0 THEN setElement(result, row, col, diff)
                                        ELSE result)

subtract(this, other) == subtractLoop(this, other, 0, <<>>)

\* the column-indexed version of other: col -> (row -> value)
columnIndexedOther(other) ==
    LET e == other.elements
        rc(i) == parseKey(e[i].key)
        cols == {rc(i)[2] : i \in 1..Len(e)}
    IN  [c \in cols |->
           LET idx == {i \in 1..Len(e) : rc(i)[2] = c}
           IN  [r \in {rc(i)[1] : i \in idx} |->
                  e[CHOOSE i \in idx : rc(i)[1] = r].value]]

\* for (const [key1, value1] of this.elements)
\*   for (col2 = 0; col2 < other.cols; col2++)
\* n counts the (entry, col2) pairs visited so far
RECURSIVE multiplyLoop(_, _, _, _, _)
multiplyLoop(this, other, index, n, result) ==
    IF other.cols <= 0 \/ n \div other.cols >= Len(this.elements)
      THEN result
      ELSE LET entry == this.elements[(n \div other.cols) + 1]
               row1 == parseKey(entry.key)[1]
               col1 == parseKey(entry.key)[2]
               col2 == n % other.cols
               hit == col2 \in DOMAIN index /\ col1 \in DOMAIN index[col2]
               newValue == getElement(result, row1, col2)
                             + entry.value * index[col2][col1]
           IN  multiplyLoop(this, other, index, n + 1,
                            IF hit /\ newValue # 0
                              THEN setElement(result, row1, col2, newValue)
                              ELSE result)

multiply(this, other) ==
    multiplyLoop(this, other, columnIndexedOther(other), 0, <<>>)

(***************************************************************************)
(* The arithmetic of src/dsa/sparse_matrix/code/src/main.js.               *)
(***************************************************************************)
\* for (const [key, value] of this.elements) result.elements.set(key, value)
RECURSIVE copyLoop(_, _, _)
copyLoop(elements, i, result) ==
    IF i > Len(elements)
      THEN result
      ELSE copyLoop(elements, i + 1,
                    MapSet(result, elements[i].key, elements[i].value))

\* for (const [key, value] of other.elements) { ... result.setElement(...) }
RECURSIVE addMainLoop(_, _, _)
addMainLoop(elements, i, result) ==
    IF i > Len(elements)
      THEN result
      ELSE LET row == parseKey(elements[i].key)[1]
               col == parseKey(elements[i].key)[2]
               newValue == getElement(result, row, col) + elements[i].value
           IN  addMainLoop(elements, i + 1, setElement(result, row, col, newValue))

\* add without the loop that copies this.elements into the result
addMainNoCopy(this, other) == addMainLoop(other.elements, 1, <<>>)

addMain(this, other) ==
    addMainLoop(other.elements, 1, copyLoop(this.elements, 1, <<>>))

RECURSIVE subtractMainLoop(_, _, _)
subtractMainLoop(elements, i, result) ==
    IF i > Len(elements)
      THEN result
      ELSE LET row == parseKey(elements[i].key)[1]
               col == parseKey(elements[i].key)[2]
               newValue == getElement(result, row, col) - elements[i].value
           IN  subtractMainLoop(elements, i + 1,
                                setElement(result, row, col, newValue))

subtractMain(this, other) ==
    subtractMainLoop(other.elements, 1, copyLoop(this.elements, 1, <<>>))

\* for (const [key1, value1] of this.elements)
\*   for (const [key2, value2] of other.elements)
\* n counts the (entry of this, entry of other) pairs visited so far
RECURSIVE multiplyMainLoop(_, _, _, _)
multiplyMainLoop(this, other, n, result) ==
    IF Len(other.elements) = 0 \/ n \div Len(other.elements) >= Len(this.elements)
      THEN result
      ELSE LET e1 == this.elements[(n \div Len(other.elements)) + 1]
               e2 == other.elements[(n % Len(other.elements)) + 1]
               row1 == parseKey(e1.key)[1]
               col1 == parseKey(e1.key)[2]
               row2 == parseKey(e2.key)[1]
               col2 == parseKey(e2.key)[2]
               newValue == getElement(result, row1, col2) + e1.value * e2.value
           IN  multiplyMainLoop(this, other, n + 1,
                                IF col1 = row2
                                  THEN setElement(result, row1, col2, newValue)
                                  ELSE result)

multiplyMain(this, other) == multiplyMainLoop(this, other, 0, <<>>)

(***************************************************************************)
(* The program state.                                                      *)
(*   impl    which class the program uses: "root" or "main"                *)
(*   matrix  the program's variables matrix1, matrix2, result: a           *)
(*           SparseMatrix object [rows, cols, elements] whose elements     *)
(*           field is a reference to a Map, or Null                        *)
(*   heap    the Map behind each reference                                 *)
(*   err     the error thrown by the last call, or "none"                  *)
(*   last    the last call: its name, receiver and arguments               *)
(***************************************************************************)
VARIABLES impl, matrix, heap, err, last

vars == <<impl, matrix, heap, err, last>>

Impls == {"root", "main"}
Slots == {"matrix1", "matrix2", "result"}
CallerSlots == {"matrix1", "result"}
ArithOps == {"add", "subtract", "multiply"}

\* the record of a call: its name, the variables holding its receiver and its
\* matrix argument, and its other arguments
Called(op, this, other, args) ==
    [op |-> op, this |-> this, other |-> other, args |-> args]

Null == [rows |-> 0, cols |-> 0, elements |-> "null"]

Live(slot) == matrix[slot] # Null

\* the object a variable holds, with its Map read through the reference
Deref(slot) ==
    [rows |-> matrix[slot].rows, cols |-> matrix[slot].cols,
     elements |-> heap[matrix[slot].elements]]

\* result.elements = this.elements instead of a Map of its own
NewMapShared(slot, this) == this

\* this.elements = new Map(): the reference of the Map allocated for the
\* object about to be stored in variable `slot`; `this` is the receiver of the
\* call that constructs it
NewMap(slot, this) == slot

\* the constructor called with dimensions: does it throw "Invalid input"?
\* root: typeof input === "object" && input.rows && input.cols, else throw
\* main: stores whatever it is given
constructorThrows(class, rows, cols) ==
    class = "root" /\ (rows = 0 \/ cols = 0)

\* a dimension check that compares the row counts only
dimensionMismatchRowsOnly(op, this, other) ==
    IF op = "multiply"
      THEN this.cols # other.rows
      ELSE this.rows # other.rows

\* the dimension check that opens add, subtract and multiply
dimensionMismatch(op, this, other) ==
    IF op = "multiply"
      THEN this.cols # other.rows
      ELSE this.rows # other.rows \/ this.cols # other.cols

\* result.elements of this.op(other), by class
resultElements(class, op, this, other) ==
    CASE class = "root" /\ op = "add" -> add(this, other)
      [] class = "root" /\ op = "subtract" -> subtract(this, other)
      [] class = "root" /\ op = "multiply" -> multiply(this, other)
      [] class = "main" /\ op = "add" -> addMain(this, other)
      [] class = "main" /\ op = "subtract" -> subtractMain(this, other)
      [] class = "main" /\ op = "multiply" -> multiplyMain(this, other)

\* new SparseMatrix(...) of the result: this.rows x this.cols for add and
\* subtract, this.rows x other.cols for multiply
resultCols(op, this, other) == IF op = "multiply" THEN other.cols ELSE this.cols

(***************************************************************************)
(* result = matrix[this].op(matrix[other])                                 *)
(***************************************************************************)
Arith(op, this, other) ==
    /\ Live(this) /\ Live(other)
    /\ LET t == Deref(this)
           o == Deref(other)
           ref == NewMap("result", matrix[this].elements)
       IN  IF dimensionMismatch(op, t, o)
             THEN /\ err' = "DimensionMismatch"
                  /\ UNCHANGED <<matrix, heap>>
             ELSE IF constructorThrows(impl, t.rows, resultCols(op, t, o))
               THEN /\ err' = "InvalidInput"
                    /\ UNCHANGED <<matrix, heap>>
               ELSE /\ err' = "none"
                    /\ matrix' = [matrix EXCEPT !["result"] =
                                    [rows |-> t.rows,
                                     cols |-> resultCols(op, t, o),
                                     elements |-> ref]]
                    /\ heap' = [heap EXCEPT ![ref] =
                                  resultElements(impl, op, t, o)]
    /\ last' = Called(op, this, other, <<>>)
    /\ UNCHANGED impl

(***************************************************************************)
(* The programs: part_000 and main() load matrix1 and matrix2 from two     *)
(* files and call an operation on them.  A file is [rows, cols, lines],    *)
(* each line a triple <<row, col, value>>; loadFromFile / loadMatrix set   *)
(* rows and cols and call setElement once per line.                        *)
(***************************************************************************)
Triples == Rows \X Cols \X (Vals \ {0})

\* the files read: element lines in ascending (row, col) order
Ascending(lines) ==
    \A i \in 1..(Len(lines) - 1) :
       \/ lines[i][1] < lines[i + 1][1]
       \/ lines[i][1] = lines[i + 1][1] /\ lines[i][2] < lines[i + 1][2]

Lines == {lines \in UNION {[1..n -> Triples] : n \in 0..MaxLines} :
            Ascending(lines)}

RECURSIVE loadLoop(_, _, _)
loadLoop(lines, i, elements) ==
    IF i > Len(lines)
      THEN elements
      ELSE loadLoop(lines, i + 1,
                    setElement(elements, lines[i][1], lines[i][2], lines[i][3]))

loadFromFile(lines) == loadLoop(lines, 1, <<>>)

\* the Maps a file can load
LoadedMaps == {loadFromFile(lines) : lines \in Lines}

InitFiles ==
    /\ impl \in Impls
    /\ \E r1 \in FileDims, c1 \in FileDims, r2 \in FileDims, c2 \in FileDims :
         matrix = [s \in Slots |->
                     CASE s = "matrix1" -> [rows |-> r1, cols |-> c1, elements |-> s]
                       [] s = "matrix2" -> [rows |-> r2, cols |-> c2, elements |-> s]
                       [] OTHER -> Null]
    /\ \E m1 \in LoadedMaps, m2 \in LoadedMaps :
         heap = [s \in Slots |->
                   CASE s = "matrix1" -> m1 [] s = "matrix2" -> m2 [] OTHER -> <<>>]
    /\ err = "none"
    /\ last = Called("load", "matrix1", "matrix2", <<>>)

\* performOperation(operation) of part_000; main() calls add and subtract.
\* An uncaught error ends the program.
performAdd == err = "none" /\ Arith("add", "matrix1", "matrix2")

performSubtract == err = "none" /\ Arith("subtract", "matrix1", "matrix2")

performMultiply == err = "none" /\ Arith("multiply", "matrix1", "matrix2")

NextFiles == performAdd \/ performSubtract \/ performMultiply

SpecFiles == InitFiles /\ [][NextFiles]_vars

(***************************************************************************)
(* A caller of the class: it constructs matrix1 and matrix2 from           *)
(* dimensions, sets elements of any matrix it holds, and calls add,        *)
(* subtract and multiply on any two of them, operands and results alike.   *)
(***************************************************************************)
InitApi ==
    /\ impl \in Impls
    /\ matrix = [s \in Slots |-> Null]
    /\ heap = [s \in Slots |-> <<>>]
    /\ err = "none"
    /\ last = Called("start", "matrix1", "matrix1", <<>>)

\* matrix[slot] = new SparseMatrix(rows, cols)
Construct(slot, rows, cols) ==
    /\ IF constructorThrows(impl, rows, cols)
         THEN /\ err' = "InvalidInput"
              /\ UNCHANGED <<matrix, heap>>
         ELSE /\ err' = "none"
              /\ matrix' = [matrix EXCEPT ![slot] =
                              [rows |-> rows, cols |-> cols,
                               elements |-> NewMap(slot, slot)]]
              /\ heap' = [heap EXCEPT ![NewMap(slot, slot)] = <<>>]
    /\ last' = Called("construct", slot, slot, <<rows, cols>>)
    /\ UNCHANGED impl

InBound(elements) ==
    /\ Len(elements) <= MaxEntries
    /\ \A i \in 1..Len(elements) :
         elements[i].value \in (-MaxAbs)..MaxAbs

\* matrix[slot].setElement(row, col, value)
SetElement(slot, row, col, value) ==
    /\ Live(slot)
    /\ InBound(setElement(heap[matrix[slot].elements], row, col, value))
    /\ heap' = [heap EXCEPT ![matrix[slot].elements] =
                  setElement(@, row, col, value)]
    /\ err' = "none"
    /\ last' = Called("setElement", slot, slot, <<row, col, value>>)
    /\ UNCHANGED <<impl, matrix>>

\* result = matrix[this].op(matrix[other]), kept within the bounds
Call(op, this, other) ==
    /\ Arith(op, this, other)
    /\ err' = "none" => InBound(heap'[matrix'["result"].elements])

NextApi ==
    \/ \E rows \in CallerDims, cols \in CallerDims :
         Construct("matrix1", rows, cols)
    \/ \E slot \in CallerSlots, row \in CallerRows, col \in CallerCols,
          value \in Vals :
         SetElement(slot, row, col, value)
    \/ \E op \in ArithOps, this \in CallerSlots, other \in CallerSlots :
         Call(op, this, other)

Spec == InitApi /\ [][NextApi]_vars

(***************************************************************************)
(* Vocabulary of the claims.                                               *)
(***************************************************************************)
M1 == Deref("matrix1")
M2 == Deref("matrix2")
Res == Deref("result")

KeysOf(elements) == {elements[i].key : i \in 1..Len(elements)}

Stored(elements, row, col) == Key(row, col) \in KeysOf(elements)

\* the entries as a set of (row, col, value) triples
EntrySet(elements) ==
    {<<parseKey(elements[i].key)[1], parseKey(elements[i].key)[2],
       elements[i].value>> : i \in 1..Len(elements)}

\* every coordinate an input file can name
Grid == Rows \X Cols

\* every stored key lies inside the declared dimensions
InDeclared(m) ==
    \A e \in EntrySet(m.elements) :
       e[1] \in 0..(m.rows - 1) /\ e[2] \in 0..(m.cols - 1)

\* sum over k in 0..n of a[i][k] * b[k][j]
RECURSIVE SumProducts(_, _, _, _, _)
SumProducts(a, b, i, j, n) ==
    IF n < 0
      THEN 0
      ELSE getElement(a.elements, i, n) * getElement(b.elements, n, j)
             + SumProducts(a, b, i, j, n - 1)

Returned(op) == last.op = op /\ err = "none"

(***************************************************************************)
(* C1: for operands whose keys lie inside their declared dimensions,       *)
(* matrix1.multiply(matrix2) is rows(matrix1) x cols(matrix2), reads at    *)
(* every (i, j) the sum over k of matrix1[i][k] * matrix2[k][j], and       *)
(* stores no key where that sum is zero.                                   *)
(***************************************************************************)
C1_MultiplyIsProduct ==
    (Returned("multiply") /\ InDeclared(M1) /\ InDeclared(M2)) =>
       /\ Res.rows = M1.rows
       /\ Res.cols = M2.cols
       /\ InDeclared(Res)
       /\ \A i \in 0..(M1.rows - 1), j \in 0..(M2.cols - 1) :
            LET sum == SumProducts(M1, M2, i, j, M1.cols - 1)
            IN  /\ getElement(Res.elements, i, j) = sum
                /\ sum = 0 => ~Stored(Res.elements, i, j)

(***************************************************************************)
(* C2: matrix1.add(matrix2) has the operands' dimensions, reads at every   *)
(* key of either operand the sum of the operands' values, stores no other  *)
(* key, and equals matrix2 when matrix1 is empty.                          *)
(***************************************************************************)
C2_AddIsUnionSum ==
    Returned("add") =>
       /\ Res.rows = M1.rows
       /\ Res.cols = M1.cols
       /\ KeysOf(Res.elements) \subseteq
            KeysOf(M1.elements) \cup KeysOf(M2.elements)
       /\ \A rc \in Grid :
            (Stored(M1.elements, rc[1], rc[2]) \/ Stored(M2.elements, rc[1], rc[2]))
              => getElement(Res.elements, rc[1], rc[2])
                   = getElement(M1.elements, rc[1], rc[2])
                       + getElement(M2.elements, rc[1], rc[2])
       /\ M1.elements = <<>> => EntrySet(Res.elements) = EntrySet(M2.elements)

(***************************************************************************)
(* C3: matrix1.subtract(matrix2) reads at every key of either operand the  *)
(* difference of the operands' values, stores no other key and no key      *)
(* whose difference is zero.                                               *)
(***************************************************************************)
C3_SubtractIsUnionDifference ==
    Returned("subtract") =>
       /\ KeysOf(Res.elements) \subseteq
            KeysOf(M1.elements) \cup KeysOf(M2.elements)
       /\ \A rc \in Grid :
            LET diff == getElement(M1.elements, rc[1], rc[2])
                          - getElement(M2.elements, rc[1], rc[2])
            IN  /\ (Stored(M1.elements, rc[1], rc[2])
                      \/ Stored(M2.elements, rc[1], rc[2]))
                     => getElement(Res.elements, rc[1], rc[2]) = diff
                /\ diff = 0 => ~Stored(Res.elements, rc[1], rc[2])

(***************************************************************************)
(* C4: a call of add or subtract on operands whose rows or cols differ,    *)
(* or of multiply with cols(this) # rows(other), ends in the dimension     *)
(* error, assigns no result and leaves every matrix and Map as it was.     *)
(***************************************************************************)
DimensionsDiffer(op, a, b) ==
    \/ op \in {"add", "subtract"} /\ (a.rows # b.rows \/ a.cols # b.cols)
    \/ op = "multiply" /\ a.cols # b.rows

C4_MismatchFailsFast ==
    [][ (last'.op \in ArithOps
           /\ DimensionsDiffer(last'.op, matrix[last'.this], matrix[last'.other]))
        => (err' = "DimensionMismatch" /\ matrix' = matrix /\ heap' = heap) ]_vars

\* a 1 x 2 matrix added to a 2 x 1 matrix, both with entries: the call failed
C4_Witness ==
    /\ last.op = "add"
    /\ err = "DimensionMismatch"
    /\ M1.rows = M2.cols /\ M1.cols = M2.rows /\ M1.rows # M1.cols
    /\ M1.elements # <<>> /\ M2.elements # <<>>
    /\ ~Live("result")

(***************************************************************************)
(* C7: (matrix1.add(matrix2)).subtract(matrix2) has exactly the entries of *)
(* matrix1.                                                                *)
(***************************************************************************)
C7_AddThenSubtract ==
    Returned("add") =>
       EntrySet(resultElements(impl, "subtract", Res, M2))
         = EntrySet(M1.elements)

(***************************************************************************)
(* C8: matrix1.add(matrix2) and matrix2.add(matrix1) have the same set of  *)
(* (row, col, value) entries and the same dimensions.                      *)
(***************************************************************************)
C8_AddCommutes ==
    Returned("add") =>
       /\ ~dimensionMismatch("add", M2, M1)
       /\ Res.rows = M2.rows
       /\ Res.cols = resultCols("add", M2, M1)
       /\ EntrySet(Res.elements)
            = EntrySet(resultElements(impl, "add", M2, M1))

\* the operands share a key and each has a key of its own; the two sums
\* are equal as sets and differ as Maps (in iteration order)
C8_Witness ==
    /\ Returned("add")
    /\ KeysOf(M1.elements) \cap KeysOf(M2.elements) # {}
    /\ KeysOf(M1.elements) \ KeysOf(M2.elements) # {}
    /\ KeysOf(M2.elements) \ KeysOf(M1.elements) # {}
    /\ Res.elements # resultElements(impl, "add", M2, M1)

\* every coordinate a caller can name, and one row and one column beyond
Probe == (0..(MaxCallerRow + 1)) \X (0..(MaxCallerCol + 1))

Read(slot, rc) == getElement(heap[matrix[slot].elements], rc[1], rc[2])

(***************************************************************************)
(* C5 (invariant I1): no matrix the caller holds, operand or result,       *)
(* stores an entry of value 0.                                             *)
(***************************************************************************)
C5_NoStoredZero ==
    \A s \in Slots :
       Live(s) =>
          \A i \in 1..Len(heap[matrix[s].elements]) :
             heap[matrix[s].elements][i].value # 0

\* matrix1 has a non-zero entry at (0, 0), inside its dimensions, and
\* matrix1.subtract(matrix1) returned a matrix with no entry
C5_Witness ==
    /\ Returned("subtract")
    /\ last.this = "matrix1" /\ last.other = "matrix1"
    /\ M1.rows >= 1 /\ M1.cols >= 1
    /\ Stored(M1.elements, 0, 0)
    /\ Res.elements = <<>>

(***************************************************************************)
(* C6: setElement(row, col, value) followed by getElement(row, col) reads  *)
(* value; a value of 0 leaves the key unstored; no other coordinate        *)
(* changes its value; a freshly constructed matrix reads 0 everywhere.     *)
(***************************************************************************)
SetThenGet(slot, row, col, value) ==
    /\ getElement(heap'[matrix'[slot].elements], row, col) = value
    /\ value = 0 => ~Stored(heap'[matrix'[slot].elements], row, col)
    /\ \A rc \in Probe :
         rc # <<row, col>> => Read(slot, rc)' = Read(slot, rc)

C6_SetThenGet ==
    [][ /\ \A slot \in CallerSlots, row \in CallerRows, col \in CallerCols,
             value \in Vals :
             last' = Called("setElement", slot, slot, <<row, col, value>>)
               => SetThenGet(slot, row, col, value)
        /\ (last'.op = "construct" /\ err' = "none")
             => \A rc \in Probe : Read("matrix1", rc)' = 0 ]_vars

\* matrix1 has one row; setElement stored (0, 0) and (1, 0), the second
\* outside the declared rows
C6_Witness ==
    /\ last.op = "setElement" /\ last.this = "matrix1"
    /\ M1.rows = 1
    /\ getElement(M1.elements, 0, 0) = 1
    /\ getElement(M1.elements, 1, 0) = -1

(***************************************************************************)
(* C9: a call of add, subtract or multiply that returns leaves every       *)
(* operand the caller still holds with the same rows, cols and Map, and    *)
(* the result's Map is the Map of no other matrix; a setElement on one     *)
(* matrix leaves the Map of every other matrix, hence every value read     *)
(* from it, as it was.                                                     *)
(***************************************************************************)
C9_OperandsUntouched ==
    [][ /\ (last'.op \in ArithOps /\ err' = "none") =>
             /\ \A s \in {last'.this, last'.other} \ {"result"} :
                  /\ matrix'[s] = matrix[s]
                  /\ heap'[matrix'[s].elements] = heap[matrix[s].elements]
             /\ \A s \in Slots \ {"result"} :
                  matrix'[s] # Null
                    => matrix'[s].elements # matrix'["result"].elements
        /\ last'.op = "setElement" =>
             \A t \in Slots \ {last'.this} :
                Live(t) => /\ matrix'[t] = matrix[t]
                           /\ heap'[matrix'[t].elements] = heap[matrix[t].elements] ]_vars

\* after a call returned a result, setElement was called on the result,
\* and matrix1 and the result hold different entries
C9_Witness ==
    /\ last.op = "setElement" /\ last.this = "result"
    /\ Live("matrix1") /\ Live("result")
    /\ M1.elements # <<>> /\ Res.elements # <<>>
    /\ EntrySet(M1.elements) # EntrySet(Res.elements)

(***************************************************************************)
(* C10: new SparseMatrix(rows, cols) succeeds for all rows, cols >= 0 and  *)
(* gives an empty matrix; add, subtract and multiply on operands whose     *)
(* dimensions agree return a result.                                       *)
(***************************************************************************)
C10_ConstructSucceeds ==
    /\ last.op = "construct" =>
         /\ err = "none"
         /\ Live("matrix1")
         /\ M1.elements = <<>>
    /\ (last.op \in ArithOps
          /\ ~DimensionsDiffer(last.op, matrix[last.this], matrix[last.other]))
         => err = "none"

====
